---- MODULE Spec2Model ----
(***************************************************************************)
(* dink (src/main.ts): reconciliation of ./vendor and ./modules-lock.json  *)
(* against a manifest.  One process run is main (isDinkModules) -> ensure  *)
(* -> readLockFile -> deleteRemovedFiles -> (writeLinkFile* ->             *)
(* generateLockFile) per host.                                             *)
(* Every await of a file-system or network operation is one step, so the   *)
(* tasks started by one Promise.all interleave at those steps.             *)
(***************************************************************************)
EXTENDS Integers, Sequences, FiniteSets, TLC

VARIABLES
  todo,        \* the invocations still to come: for each, the documents modules.json
               \* may hold (docs) and the outcomes of the previous run after which
               \* the tool is invoked again (after)
  lockDisk,    \* ./modules-lock.json on disk: [exists, type, json, defect]
  files,       \* regular files below the working directory: path -> content
  dirs,        \* directories below the working directory (the working directory itself always exists)
  phase,       \* position of main/ensure: idle, prune, link, done, failed, invalid
  modules,     \* ensure's argument
  lockFile,    \* ensure's const lockFile: [defined, value]
  hostIdx,     \* index of the for..of loop of ensure over Object.entries(modules)
  tasks,       \* the async callbacks started by Promise.all in this run, in start order
  error,       \* the error ensure rejected with ("" when none)
  lockWrites,  \* number of Deno.writeFile calls on the lock file in this run
  removed,     \* paths Deno.remove deleted in this run (files and directories)
  start,       \* file system, lock file and manifest as they were when this run started
  prev         \* outcome of the previous run: [result, modules, clean]

vars == <<todo, lockDisk, files, dirs, phase, modules, lockFile, hostIdx, tasks,
          error, lockWrites, removed, start, prev>>

----------------------------------------------------------------------------
(* Bounds of the model *)
MaxEntries == 2        \* module paths listed in one document, over all its hosts
MaxTotal == 3          \* module paths listed in the first lock state and the manifest together
MaxRuns == 2           \* invocations of the tool in one behaviour

(* Universe of documents *)
HostOrder == <<"https://a.io", "https://b.io">>
Hosts == {HostOrder[i] : i \in 1..Len(HostOrder)}
Versions == {"@1", "@2"}
ModOrder == <<(<<"a">>), (<<"d", "b">>)>>    \* "/a" and "/d/b", as path segments
Mods == {ModOrder[i] : i \in 1..Len(ModOrder)}
Rank(mod) == CHOOSE i \in 1..Len(ModOrder) : ModOrder[i] = mod

(* "modules" arrays; the order of an array only numbers the callbacks that
   Promise.all starts, so the arrays of the model are listed in ModOrder order,
   repetitions included *)
ModLists ==
  {s \in UNION {[1..n -> Mods] : n \in 0..MaxEntries} :
     \A i, j \in 1..Len(s) : i < j => Rank(s[i]) <= Rank(s[j])}
Module == [version : Versions, modules : ModLists]
Modules == UNION {[D -> Module] : D \in SUBSET Hosts}
NoModules == CHOOSE m \in Modules : DOMAIN m = {}

RECURSIVE Size(_, _)
Size(m, ks) == IF ks = <<>> THEN 0
               ELSE (IF Head(ks) \in DOMAIN m THEN Len(m[Head(ks)].modules) ELSE 0)
                    + Size(m, Tail(ks))

(* the manifests the runs are given, and the lock states the first run finds;
   versions are only compared for equality, so the first lock state pins "@1",
   and so does the manifest for a host the lock state does not have *)
Manifests == {m \in Modules : Size(m, HostOrder) <= MaxEntries}
LockStates == {m \in Manifests : \A k \in DOMAIN m : m[k].version = "@1"}
ManifestsFor(L) ==
  {m \in Manifests :
     /\ Size(L, HostOrder) + Size(m, HostOrder) <= MaxTotal
     /\ \A k \in (DOMAIN m) \ (DOMAIN L) : m[k].version = "@1"}

(* Parsed JSON documents.  json is the document read as a Modules value;
   type is what the document is at top level, and defect tells for each entry
   how it departs from a Module: no "version" property, a "modules" property
   that is not an array, or a "modules" array with an element that is not a
   string.  Of the arrays only [] is in the universe. *)
Types == {"object", "array", "null", "number"}
Defects == {"none", "version missing", "modules not array", "element not string"}
Object(m) == [type |-> "object", json |-> m, defect |-> [k \in DOMAIN m |-> "none"]]
Documents(m) ==
  {[type |-> "object", json |-> m, defect |-> d] : d \in [DOMAIN m -> Defects]}
  \cup {[type |-> t, json |-> NoModules, defect |-> <<>>] : t \in Types \ {"object"}}
OnDisk(present, x) ==
  [exists |-> present, type |-> x.type, json |-> x.json, defect |-> x.defect]

(* an invocation to come: whatever the previous run did, or only after a success *)
Results == {"none", "done", "failed", "invalid"}
Invocation(docs) == [docs |-> docs, after |-> Results]
AfterSuccess(docs) == [docs |-> docs, after |-> {"none", "done"}]

(* the sizes of the manifests of successive runs, bounded in total *)
RECURSIVE Sum(_)
Sum(s) == IF s = <<>> THEN 0 ELSE Head(s) + Sum(Tail(s))
Splits == {s \in [1..MaxRuns -> 0..MaxEntries] : Sum(s) <= MaxTotal}

(* new URL(k): the parts the program reads *)
URL(k) ==
  [protocol |-> <<"https", ":">>,
   hostname |-> IF k = "https://a.io" THEN "a.io" ELSE "b.io",
   pathname |-> <<>>]

(* Object.entries(obj): the keys in document order; the documents of the
   model list their hosts in the order of HostOrder *)
Entries(obj) == SelectSeq(HostOrder, LAMBDA k : k \in DOMAIN obj)

(* path.join and path.dirname on normalised relative paths *)
join(a, b) == a \o b
dirname(p) == IF p = <<>> THEN <<>> ELSE SubSeq(p, 1, Len(p) - 1)

(* const dir = path.join("./vendor", scheme, hostname, pathname) *)
HostDir(k) ==
  LET url == URL(k)
      scheme == SubSeq(url.protocol, 1, Len(url.protocol) - 1)
  IN join(join(join(<<"vendor">>, scheme), <<url.hostname>>), url.pathname)

Resolve(k, mod) == join(HostDir(k), mod)

(* `${host}${version}${mod}` *)
Specifier(host, version, mod) == <<host, version>> \o mod

(* the shim text: export * from "<resp.url>" *)
Shim(url) == [url |-> url]

----------------------------------------------------------------------------
(* File system primitives *)
LockName == <<"modules-lock.json">>

Exists(p) == p = <<>> \/ p \in DOMAIN files \/ p \in dirs

ReadDir(dir) ==
  {p \in (DOMAIN files) \cup dirs :
      Len(p) = Len(dir) + 1 /\ SubSeq(p, 1, Len(dir)) = dir}
  \cup (IF dir = <<>> /\ lockDisk.exists THEN {LockName} ELSE {})

(* Deno.remove(p), not recursive: TRUE when it succeeds *)
CanRemove(p) ==
  \/ p \in DOMAIN files
  \/ p \in dirs /\ ReadDir(p) = {}

FilesWithout(p) == [q \in (DOMAIN files) \ {p} |-> files[q]]
FilesWith(p, c) == [q \in (DOMAIN files) \cup {p} |-> IF q = p THEN c ELSE files[q]]

Ancestors(p) == {SubSeq(p, 1, n) : n \in 1..(Len(p) - 1)}

(* The vendor tree a successful reconciliation of lock state L leaves *)
FilesOf(L) ==
  LET P == {<<k, i>> \in Hosts \X (1..MaxEntries + 1) :
               k \in DOMAIN L /\ i <= Len(L[k].modules)}
      paths == {Resolve(e[1], L[e[1]].modules[e[2]]) : e \in P}
      owner(p) == CHOOSE e \in P : Resolve(e[1], L[e[1]].modules[e[2]]) = p
  IN [p \in paths |->
        Shim(Specifier(owner(p)[1], L[owner(p)[1]].version,
                       L[owner(p)[1]].modules[owner(p)[2]]))]

DirsOf(L) == UNION {Ancestors(p) : p \in DOMAIN FilesOf(L)}

----------------------------------------------------------------------------
(* deleteRemovedFiles: the list of obsolete files (lines 43-61) *)
Range(s) == {s[i] : i \in 1..Len(s)}

RECURSIVE SetOf(_, _)
(* new Set<string>(v.modules), in insertion order *)
SetOf(s, acc) ==
  IF s = <<>> THEN acc
  ELSE SetOf(Tail(s), IF Head(s) \in Range(acc) THEN acc ELSE Append(acc, Head(s)))

(* mutants of Obsolete: the whole entry is pruned although the manifest still
   has the host; nothing is pruned for a host the manifest dropped; a changed
   version makes every module of the entry obsolete *)
ObsoleteIgnoresManifest(k, mods, lock) == lock[k].modules

ObsoleteKeepsDroppedHost(k, mods, lock) ==
  IF k \notin DOMAIN mods
    THEN <<>>
    ELSE SelectSeq(SetOf(lock[k].modules, <<>>),
                   LAMBDA i : i \notin Range(mods[k].modules))

ObsoleteOnVersionChange(k, mods, lock) ==
  IF k \notin DOMAIN mods \/ mods[k].version # lock[k].version
    THEN lock[k].modules
    ELSE SelectSeq(SetOf(lock[k].modules, <<>>),
                   LAMBDA i : i \notin Range(mods[k].modules))

(* mutant of Obsolete: nothing is ever obsolete *)
ObsoleteNothing(k, mods, lock) == <<>>

(* the modules of lock entry k that are pushed to removedFiles *)
Obsolete(k, mods, lock) ==
  IF k \notin DOMAIN mods
    THEN lock[k].modules
    ELSE SelectSeq(SetOf(lock[k].modules, <<>>),
                   LAMBDA i : i \notin Range(mods[k].modules))

PruneTask(k, i) ==
  [kind |-> "prune", host |-> k, mod |-> i, file |-> Resolve(k, i),
   pc |-> "exists", dir |-> <<>>, fetched |-> FALSE, contentLength |-> 0,
   late |-> FALSE]

RECURSIVE removedFiles(_, _, _)
removedFiles(ks, mods, lock) ==
  IF ks = <<>> THEN <<>>
  ELSE LET k == Head(ks)
           o == Obsolete(k, mods, lock)
       IN [n \in 1..Len(o) |-> PruneTask(k, o[n])] \o removedFiles(Tail(ks), mods, lock)

(* v.modules.map(writeLinkFile({host, version, lockFile})) for one host *)
LinkTask(k, i) ==
  [kind |-> "link", host |-> k, mod |-> i, file |-> Resolve(k, i),
   pc |-> "exists", dir |-> dirname(Resolve(k, i)), fetched |-> FALSE,
   contentLength |-> 0, late |-> FALSE]

RECURSIVE AllLinkTasks(_, _)
AllLinkTasks(ks, mods) ==
  IF ks = <<>> THEN <<>>
  ELSE [n \in 1..Len(mods[Head(ks)].modules) |-> LinkTask(Head(ks), mods[Head(ks)].modules[n])]
       \o AllLinkTasks(Tail(ks), mods)

(* mutant of LinkTasks: the links of every host are started with the first host *)
LinkTasksAllHosts(k, mods) ==
  IF k = Entries(mods)[1] THEN AllLinkTasks(Entries(mods), mods) ELSE <<>>

LinkTasks(k, mods) == [n \in 1..Len(mods[k].modules) |-> LinkTask(k, mods[k].modules[n])]

(* mutant of lockedVersion: the lock file's version is never consulted *)
lockedVersionIgnoresLock(host, version, lf) == version

(* writeLinkFile lines 106-109 *)
lockedVersion(host, version, lf) ==
  IF lf.defined /\ host \in DOMAIN lf.value THEN lf.value[host].version ELSE version

(* responses of the remote server to a GET *)
Ceiling == 10000000
Responses == [status : {200, 404}, contentLength : {0, Ceiling, Ceiling + 1}]

(* mutant of Oversized: the declared length is never checked *)
OversizedNever(resp) == FALSE

(* line 121: contentLength > Ceiling *)
Oversized(resp) == resp.contentLength > Ceiling

(* mutant of AllDone: the Promise.all is not awaited *)
AllDoneNotAwaited(kind) == TRUE

AllDone(kind) == \A n \in 1..Len(tasks) : tasks[n].kind = kind => tasks[n].pc = "done"

(* a rejection of a task rejects Promise.all and with it ensure *)
Reject(cause) ==
  /\ phase' = IF phase \in {"prune", "link"} THEN "failed" ELSE phase
  /\ error' = IF phase \in {"prune", "link"} THEN cause ELSE error

(* A callback runs while ensure is in its phase; once ensure has rejected, the
   sibling callbacks already in flight may go on until the process ends *)
Running(kind) == phase = kind \/ (phase = "failed" /\ error # "TypeError")

----------------------------------------------------------------------------
(* typeof x, typeof m["version"], Array.isArray(m["modules"]) and
   typeof mod of lines 16-33 *)
typeof(x) == IF x.type \in {"object", "array", "null"} THEN "object" ELSE x.type
typeofVersion(x, k) == IF x.defect[k] = "version missing" THEN "undefined" ELSE "string"
isArray(x, k) == x.defect[k] # "modules not array"
allStrings(x, k) == x.defect[k] # "element not string"

(* the for..in loop of isDinkModules, lines 20-38: returns at the first
   entry that is not a Module *)
RECURSIVE checkEntries(_, _)
checkEntries(ks, x) ==
  IF ks = <<>> THEN [ok |-> TRUE, errors |-> <<>>]
  ELSE IF typeofVersion(x, Head(ks)) # "string"
    THEN [ok |-> FALSE, errors |-> <<"version must be string">>]
  ELSE IF ~isArray(x, Head(ks))
    THEN [ok |-> FALSE, errors |-> <<"modules must be array">>]
  ELSE IF ~allStrings(x, Head(ks))
    THEN [ok |-> FALSE, errors |-> <<"content of modules must be string">>]
  ELSE checkEntries(Tail(ks), x)

(* isDinkModules(x, errors): the result and the errors pushed *)
isDinkModules(x) ==
  IF typeof(x) # "object"
    THEN [ok |-> FALSE, errors |-> <<"is not object">>]
    ELSE checkEntries(Entries(x.json), x)

(* errors.join(",") *)
joined(errors) == IF errors = <<>> THEN "" ELSE Head(errors)

(* mutant of readLockFile: a lock file of invalid format is read as {} *)
readLockFileLenient ==
  IF lockDisk.exists
    THEN IF ~isDinkModules(lockDisk).ok
           THEN [threw |-> FALSE, defined |-> TRUE, type |-> "object", value |-> NoModules]
           ELSE [threw |-> FALSE, defined |-> TRUE, type |-> lockDisk.type,
                 value |-> lockDisk.json]
    ELSE [threw |-> FALSE, defined |-> FALSE, type |-> "undefined", value |-> NoModules]

(* readLockFile, lines 148-160: undefined when the file does not exist *)
readLockFile ==
  IF lockDisk.exists
    THEN IF ~isDinkModules(lockDisk).ok
           THEN [threw |-> TRUE, defined |-> FALSE, type |-> "undefined", value |-> NoModules]
           ELSE [threw |-> FALSE, defined |-> TRUE, type |-> lockDisk.type,
                 value |-> lockDisk.json]
    ELSE [threw |-> FALSE, defined |-> FALSE, type |-> "undefined", value |-> NoModules]

----------------------------------------------------------------------------
Init ==
  /\ \E L \in LockStates, present \in BOOLEAN :
       /\ present \/ L = NoModules
       /\ lockDisk = OnDisk(present, Object(L))
       /\ files = FilesOf(L)
       /\ dirs = DirsOf(L)
       /\ \E M \in ManifestsFor(L) : todo = [r \in 1..MaxRuns |-> Invocation({Object(M)})]
  /\ phase = "idle"
  /\ modules = NoModules
  /\ lockFile = [defined |-> FALSE, value |-> NoModules]
  /\ hostIdx = 0
  /\ tasks = <<>>
  /\ error = ""
  /\ lockWrites = 0
  /\ removed = {}
  /\ start = [files |-> files, dirs |-> dirs, lock |-> lockDisk,
              manifest |-> Object(NoModules)]
  /\ prev = [result |-> "none", modules |-> NoModules, clean |-> TRUE]

(* main, lines 211-219, and ensure, lines 79-81: the manifest is validated;
   then readLockFile, then the synchronous part of deleteRemovedFiles.
   Object.entries(lockFile) throws for undefined and null (line 44), and a null
   manifest throws at modules[k] (line 49) or at Object.entries(modules)
   (line 82), in both cases before any file is touched *)
StartRun ==
  /\ phase = "idle"
  /\ todo # <<>>
  /\ prev.result \in Head(todo).after
  /\ todo' = Tail(todo)
  /\ \E json \in Head(todo).docs :
       LET errors == isDinkModules(json)
           lock == readLockFile
       IN /\ start' = [files |-> files, dirs |-> dirs, lock |-> lockDisk,
                       manifest |-> json]
          /\ IF ~errors.ok
               THEN \* console.error, Deno.exit(1)
                    /\ phase' = "invalid"
                    /\ error' = joined(errors.errors)
                    /\ modules' = NoModules
                    /\ lockFile' = [defined |-> FALSE, value |-> NoModules]
                    /\ tasks' = <<>>
               ELSE /\ modules' = json.json
                    /\ lockFile' = [defined |-> lock.defined, value |-> lock.value]
                    /\ IF lock.threw
                         THEN /\ tasks' = <<>>
                              /\ phase' = "failed"
                              /\ error' = "invalid format"
                         ELSE IF ~lock.defined \/ lock.type = "null" \/ json.type = "null"
                           THEN /\ tasks' = <<>>
                                /\ phase' = "failed"
                                /\ error' = "TypeError"
                           ELSE /\ tasks' = removedFiles(Entries(lock.value), json.json,
                                                         lock.value)
                                /\ phase' = "prune"
                                /\ error' = ""
  /\ hostIdx' = 0
  /\ lockWrites' = 0
  /\ removed' = {}
  /\ UNCHANGED <<lockDisk, files, dirs, prev>>

(* prune callback, line 64: await fs.exists(i) *)
PruneExists(n) ==
  /\ Running("prune")
  /\ tasks[n].kind = "prune" /\ tasks[n].pc = "exists"
  /\ tasks' = [tasks EXCEPT ![n].pc =
                      IF Exists(tasks[n].file) THEN "remove" ELSE "done"]
  /\ UNCHANGED <<todo, lockDisk, files, dirs, phase, modules, lockFile, hostIdx,
                 error, lockWrites, removed, start, prev>>

(* Deno.remove(p) of a prune callback: lines 67 and 70 *)
Remove(n, p, cause) ==
  IF CanRemove(p)
    THEN /\ files' = FilesWithout(p)
         /\ dirs' = dirs \ {p}
         /\ removed' = removed \cup {p}
         /\ tasks' = [tasks EXCEPT ![n].pc = "readDir", ![n].dir = dirname(p)]
         /\ UNCHANGED <<phase, error>>
    ELSE /\ tasks' = [tasks EXCEPT ![n].pc = "failed"]
         /\ Reject(cause)
         /\ UNCHANGED <<files, dirs, removed>>

PruneRemove(n) ==
  /\ Running("prune")
  /\ tasks[n].kind = "prune" /\ tasks[n].pc = "remove"
  /\ Remove(n, tasks[n].file, "remove")
  /\ UNCHANGED <<todo, lockDisk, modules, lockFile, hostIdx, lockWrites, start, prev>>

(* line 69: (await Deno.readDir(dir)).length === 0 *)
PruneReadDir(n) ==
  /\ Running("prune")
  /\ tasks[n].kind = "prune" /\ tasks[n].pc = "readDir"
  /\ IF tasks[n].dir # <<>> /\ tasks[n].dir \notin dirs
       THEN /\ tasks' = [tasks EXCEPT ![n].pc = "failed"]
            /\ Reject("readDir")
       ELSE /\ tasks' = [tasks EXCEPT ![n].pc =
                           IF ReadDir(tasks[n].dir) = {} THEN "rmdir" ELSE "done"]
            /\ UNCHANGED <<phase, error>>
  /\ UNCHANGED <<todo, lockDisk, files, dirs, modules, lockFile, hostIdx,
                 lockWrites, removed, start, prev>>

(* line 70-71: await Deno.remove(dir); dir = path.dirname(dir) *)
PruneRmdir(n) ==
  /\ Running("prune")
  /\ tasks[n].kind = "prune" /\ tasks[n].pc = "rmdir"
  /\ Remove(n, tasks[n].dir, "rmdir")
  /\ UNCHANGED <<todo, lockDisk, modules, lockFile, hostIdx, lockWrites, start, prev>>

(* ensure, lines 82-85: the tasks of the host the loop is at, or the end of the loop *)
NextHost(idx, ts) ==
  IF idx <= Len(Entries(modules))
    THEN /\ hostIdx' = idx
         /\ tasks' = ts \o LinkTasks(Entries(modules)[idx], modules)
         /\ phase' = "link"
    ELSE /\ hostIdx' = idx
         /\ tasks' = ts
         /\ phase' = "done"

(* line 81 returns: every prune callback has resolved *)
PruneJoin ==
  /\ phase = "prune"
  /\ AllDone("prune")
  /\ NextHost(1, tasks)
  /\ UNCHANGED <<todo, lockDisk, files, dirs, modules, lockFile, error,
                 lockWrites, removed, start, prev>>

(* writeLinkFile, lines 111-115: hasLink and the fast path *)
LinkExists(n) ==
  /\ Running("link")
  /\ tasks[n].kind = "link" /\ tasks[n].pc = "exists"
  /\ LET t == tasks[n]
         version == modules[t.host].version
         hasLink == Exists(t.file)
     IN tasks' = [tasks EXCEPT ![n].pc =
                    IF hasLink /\ version = lockedVersion(t.host, version, lockFile)
                      THEN "done" ELSE "fetch"]
  /\ UNCHANGED <<todo, lockDisk, files, dirs, phase, modules, lockFile, hostIdx,
                 error, lockWrites, removed, start, prev>>

(* lines 116-124: GET, status check, size check, body.  At pc "mkdir" the
   body has been read by resp.text(); contentLength is the local of line 120,
   which the message of line 122 carries *)
LinkFetch(n) ==
  /\ Running("link")
  /\ tasks[n].kind = "link" /\ tasks[n].pc = "fetch"
  /\ \E resp \in Responses :
       IF resp.status # 200
         THEN /\ tasks' = [tasks EXCEPT ![n].pc = "failed", ![n].fetched = TRUE]
              /\ Reject("status")
         ELSE IF Oversized(resp)
           THEN /\ tasks' = [tasks EXCEPT ![n].pc = "failed", ![n].fetched = TRUE,
                                          ![n].contentLength = resp.contentLength]
                /\ Reject("too big")
           ELSE /\ tasks' = [tasks EXCEPT ![n].pc = "mkdir", ![n].fetched = TRUE,
                                          ![n].contentLength = resp.contentLength]
                /\ UNCHANGED <<phase, error>>
  /\ UNCHANGED <<todo, lockDisk, files, dirs, modules, lockFile, hostIdx,
                 lockWrites, removed, start, prev>>

(* line 132: await Deno.mkdir(modDir, true) *)
LinkMkdir(n) ==
  /\ Running("link")
  /\ tasks[n].kind = "link" /\ tasks[n].pc = "mkdir"
  /\ IF \E d \in Ancestors(tasks[n].file) : d \in DOMAIN files
       THEN /\ tasks' = [tasks EXCEPT ![n].pc = "failed"]
            /\ Reject("mkdir")
            /\ UNCHANGED dirs
       ELSE /\ dirs' = dirs \cup Ancestors(tasks[n].file)
            /\ tasks' = [tasks EXCEPT ![n].pc = "write"]
            /\ UNCHANGED <<phase, error>>
  /\ UNCHANGED <<todo, lockDisk, files, modules, lockFile, hostIdx,
                 lockWrites, removed, start, prev>>

(* lines 133-138: Deno.open(modFile, "w"), Deno.write, close; late records
   that the file was written after ensure had already rejected *)
LinkWrite(n) ==
  /\ Running("link")
  /\ tasks[n].kind = "link" /\ tasks[n].pc = "write"
  /\ LET t == tasks[n] IN
     IF t.file \in dirs \/ (t.dir # <<>> /\ t.dir \notin dirs)
       THEN /\ tasks' = [tasks EXCEPT ![n].pc = "failed"]
            /\ Reject("open")
            /\ UNCHANGED files
       ELSE /\ files' = FilesWith(t.file,
                          Shim(Specifier(t.host, modules[t.host].version, t.mod)))
            /\ tasks' = [tasks EXCEPT ![n].pc = "done", ![n].contentLength = 0,
                                       ![n].late = (phase = "failed")]
            /\ UNCHANGED <<phase, error>>
  /\ UNCHANGED <<todo, lockDisk, dirs, modules, lockFile, hostIdx,
                 lockWrites, removed, start, prev>>

(* mutant of generateLockFile: ensure settles the host's links and writes the
   lock file even when one of them was rejected *)
generateLockFileAfterFailure ==
  /\ phase \in {"link", "failed"}
  /\ \A n \in 1..Len(tasks) : tasks[n].pc \in {"done", "failed"}
  /\ \E n \in 1..Len(tasks) : tasks[n].kind = "link"
  /\ lockDisk' = OnDisk(TRUE, Object(modules))
  /\ lockWrites' = lockWrites + 1
  /\ NextHost(hostIdx + 1, tasks)
  /\ UNCHANGED <<todo, files, dirs, modules, lockFile, error, removed, start, prev>>

(* line 86 and lines 143-146: generateLockFile(modules) once the host's
   Promise.all has resolved, then the next iteration of the loop *)
generateLockFile ==
  /\ phase = "link"
  /\ AllDone("link")
  /\ lockDisk' = OnDisk(TRUE, Object(modules))
  /\ lockWrites' = lockWrites + 1
  /\ NextHost(hostIdx + 1, tasks)
  /\ UNCHANGED <<todo, files, dirs, modules, lockFile, error, removed, start, prev>>

(* the process ends: Deno.exit(0) after ensure, Deno.exit(1) after the failed
   validation, or the uncaught rejection *)
Exit ==
  /\ phase \in {"done", "failed", "invalid"}
  /\ phase' = "idle"
  /\ prev' = [result |-> phase, modules |-> modules,
              clean |-> prev.clean /\ phase = "done"]
  /\ tasks' = <<>>
  /\ modules' = NoModules
  /\ lockFile' = [defined |-> FALSE, value |-> NoModules]
  /\ hostIdx' = 0
  /\ error' = ""
  /\ lockWrites' = 0
  /\ removed' = {}
  /\ start' = [files |-> files, dirs |-> dirs, lock |-> lockDisk,
               manifest |-> Object(NoModules)]
  /\ UNCHANGED <<todo, lockDisk, files, dirs>>

Next ==
  \/ StartRun
  \/ \E n \in 1..Len(tasks) : PruneExists(n)
  \/ \E n \in 1..Len(tasks) : PruneRemove(n)
  \/ \E n \in 1..Len(tasks) : PruneReadDir(n)
  \/ \E n \in 1..Len(tasks) : PruneRmdir(n)
  \/ PruneJoin
  \/ \E n \in 1..Len(tasks) : LinkExists(n)
  \/ \E n \in 1..Len(tasks) : LinkFetch(n)
  \/ \E n \in 1..Len(tasks) : LinkMkdir(n)
  \/ \E n \in 1..Len(tasks) : LinkWrite(n)
  \/ generateLockFile
  \/ Exit

Spec == Init /\ [][Next]_vars

(* Runs with a manifest of their own each, starting from an empty vendor tree
   and the lock file {}; the manifest of a run is any of the size the
   behaviour allots to the run, and the sequence ends with the first run that
   does not succeed *)
InitChain ==
  /\ lockDisk = OnDisk(TRUE, Object(NoModules))
  /\ files = FilesOf(NoModules)
  /\ dirs = DirsOf(NoModules)
  /\ \E s \in Splits :
       todo = [r \in 1..MaxRuns |->
                 AfterSuccess(
                   {Object(m) : m \in {x \in Manifests :
                                          /\ Size(x, HostOrder) = s[r]
                                          /\ r = 1 => \A k \in DOMAIN x : x[k].version = "@1"}})]
  /\ phase = "idle"
  /\ modules = NoModules
  /\ lockFile = [defined |-> FALSE, value |-> NoModules]
  /\ hostIdx = 0
  /\ tasks = <<>>
  /\ error = ""
  /\ lockWrites = 0
  /\ removed = {}
  /\ start = [files |-> files, dirs |-> dirs, lock |-> lockDisk,
              manifest |-> Object(NoModules)]
  /\ prev = [result |-> "none", modules |-> NoModules, clean |-> TRUE]

SpecChain == InitChain /\ [][Next]_vars

(* One run on documents of any shape: the lock file or the manifest may be a
   document that is not a Modules value *)
InitDocs ==
  /\ \E L \in LockStates, present \in BOOLEAN :
       /\ present \/ L = NoModules
       /\ files = FilesOf(L)
       /\ dirs = DirsOf(L)
       /\ \E M \in ManifestsFor(L) :
            \E x \in Documents(L), y \in Documents(M) :
               /\ x = Object(L) \/ y = Object(M)
               /\ present \/ x = Object(L)
               /\ lockDisk = OnDisk(present, x)
               /\ todo = <<Invocation({y})>>
  /\ phase = "idle"
  /\ modules = NoModules
  /\ lockFile = [defined |-> FALSE, value |-> NoModules]
  /\ hostIdx = 0
  /\ tasks = <<>>
  /\ error = ""
  /\ lockWrites = 0
  /\ removed = {}
  /\ start = [files |-> files, dirs |-> dirs, lock |-> lockDisk,
              manifest |-> Object(NoModules)]
  /\ prev = [result |-> "none", modules |-> NoModules, clean |-> TRUE]

SpecDocs == InitDocs /\ [][Next]_vars

----------------------------------------------------------------------------
(* Vocabulary of the properties *)
Locked == lockFile.value
PruneComplete == phase = "prune" /\ AllDone("prune")
Pruned == phase # "idle" /\ lockFile.defined /\ AllDone("prune")
NetworkErrors == {"status", "too big"}
VendorRoot == <<"vendor">>

ModulePath(doc, k) == {Resolve(k, i) : i \in Range(doc[k].modules)}
HasDuplicate(doc) ==
  \E k \in DOMAIN doc : \E i, j \in 1..Len(doc[k].modules) :
     i # j /\ doc[k].modules[i] = doc[k].modules[j]
Untouched(p) == p \in DOMAIN start.files => p \in DOMAIN files /\ files[p] = start.files[p]
HoldsShim(k, i) ==
  /\ Resolve(k, i) \in DOMAIN files
  /\ files[Resolve(k, i)] = Shim(Specifier(k, modules[k].version, i))
LinkIdx == {n \in 1..Len(tasks) : tasks[n].kind = "link"}

----------------------------------------------------------------------------
(* C1: when a run completes successfully, the lock file exists and its content
   is exactly the manifest of the run, for every manifest, the empty one
   included. *)
C1_LockEqualsManifest ==
  phase = "done" => lockDisk.exists /\ lockDisk.json = modules

(* C2: when a run fails, the lock file was not written in that run and has the
   content it had when the run started. *)
C2_LockAllOrNothing ==
  phase = "failed" => lockWrites = 0 /\ lockDisk = start.lock

(* C3: a run that follows a successful run with the same manifest issues no
   fetch, deletes nothing, does not fail, and leaves the lock file as the first
   run left it. *)
C3_Idempotent ==
  (phase # "idle" /\ prev.result = "done" /\ prev.modules = modules) =>
     /\ phase # "failed"
     /\ removed = {}
     /\ lockDisk = start.lock
     /\ \A n \in 1..Len(tasks) :
          ~tasks[n].fetched /\ tasks[n].pc \in {"exists", "done"}

C3_Witness ==
  /\ phase = "done" /\ prev.result = "done" /\ prev.modules = modules
  /\ lockWrites > 0
  /\ \E n \in LinkIdx : tasks[n].pc = "done" /\ modules[tasks[n].host].version = "@2"

(* C4: a successful re-run of the manifest of a failed run ends with the lock
   file equal to the manifest and with every module file of the manifest
   holding the shim of the version the manifest pins. *)
C4_RerunConverges ==
  (phase = "done" /\ prev.result = "failed" /\ prev.modules = modules) =>
     /\ lockDisk.exists /\ lockDisk.json = modules
     /\ \A k \in DOMAIN modules : \A i \in Range(modules[k].modules) : HoldsShim(k, i)

(* C5: a run that finds no lock file behaves as a run with an empty lock state:
   it deletes nothing and can only fail on a fetch. *)
C5_FirstRunAsEmptyLock ==
  (phase # "idle" /\ ~start.lock.exists) =>
     /\ removed = {}
     /\ phase = "failed" => error \in NetworkErrors

(* C6: once the prune step has completed, no file of a module recorded for a
   host that the manifest dropped is left, and every file of a module that the
   manifest keeps for another host is as it was when the run started. *)
C6_PruneRemovedHost ==
  PruneComplete =>
     /\ \A h \in (DOMAIN Locked) \ (DOMAIN modules) :
          \A p \in ModulePath(Locked, h) : p \notin DOMAIN files
     /\ \A k \in (DOMAIN Locked) \cap (DOMAIN modules) :
          \A p \in ModulePath(Locked, k) \cap ModulePath(modules, k) : Untouched(p)

C6_Witness ==
  /\ PruneComplete
  /\ \E h \in (DOMAIN Locked) \ (DOMAIN modules) :
       \E p \in ModulePath(Locked, h) : p \in DOMAIN start.files /\ p \in removed
  /\ \E k \in (DOMAIN Locked) \cap (DOMAIN modules) :
       \E p \in ModulePath(Locked, k) \cap ModulePath(modules, k) : p \in DOMAIN files

(* C7: for a host in both the lock state and the manifest, whatever the two
   versions: after the prune step no file of a module that only the lock state
   lists is left, the file of a module listed in both is never deleted, and
   when the version is unchanged and the file existed at the start of the run
   the link step does not fetch it. *)
C7_PartialRemoval ==
  \A h \in (DOMAIN Locked) \cap (DOMAIN modules) :
     /\ Pruned => \A p \in ModulePath(Locked, h) \ ModulePath(modules, h) :
                     p \notin DOMAIN files
     /\ \A p \in ModulePath(Locked, h) \cap ModulePath(modules, h) : p \notin removed
     /\ \A n \in LinkIdx :
          ( /\ tasks[n].host = h
            /\ modules[h].version = Locked[h].version
            /\ tasks[n].file \in ModulePath(Locked, h)
            /\ tasks[n].file \in DOMAIN start.files )
          => ~tasks[n].fetched /\ tasks[n].pc \in {"exists", "done"}

C7_Witness ==
  /\ phase = "done"
  /\ \E h \in (DOMAIN Locked) \cap (DOMAIN modules) :
       /\ modules[h].version = Locked[h].version
       /\ \E p \in ModulePath(Locked, h) \ ModulePath(modules, h) : p \in removed
       /\ \E n \in LinkIdx :
            /\ tasks[n].host = h /\ tasks[n].pc = "done" /\ ~tasks[n].fetched
            /\ tasks[n].file \in ModulePath(Locked, h)
            /\ tasks[n].file \in DOMAIN start.files

(* C8: when the lock state records a host at another version than the manifest
   and lists a module of the manifest, the link of that module never takes the
   fast path: it completes only after a fetch, and then the file holds the shim
   of the manifest's version. *)
C8_VersionBumpRefetches ==
  \A n \in LinkIdx :
     LET h == tasks[n].host IN
     ( /\ lockFile.defined /\ h \in DOMAIN Locked
       /\ Locked[h].version # modules[h].version
       /\ tasks[n].file \in ModulePath(Locked, h) )
     => /\ tasks[n].pc \notin {"exists", "fetch"} => tasks[n].fetched
        /\ tasks[n].pc = "done" => HoldsShim(h, tasks[n].mod)

C8_Witness ==
  \E n \in LinkIdx :
     LET h == tasks[n].host IN
     /\ h \in DOMAIN Locked /\ Locked[h].version # modules[h].version
     /\ tasks[n].file \in DOMAIN start.files
     /\ tasks[n].pc = "done" /\ tasks[n].fetched
     /\ files[tasks[n].file] # start.files[tasks[n].file]

(* C9: the prune step removes the directories it has emptied below the vendor
   root and never removes the vendor root or a directory above it. *)
C9_VendorRootKept ==
  /\ VendorRoot \notin removed /\ <<>> \notin removed
  /\ PruneComplete =>
       \A p \in removed \cap DOMAIN start.files :
          \A d \in Ancestors(p) : (Len(d) > 1 /\ d \in dirs) => ReadDir(d) # {}

(* C10: a module path listed more than once in an entry never makes a run
   fail: the removal of an obsolete file never fails. *)
C10_DuplicatesTolerated ==
  (phase = "failed" /\ (HasDuplicate(Locked) \/ HasDuplicate(modules))) =>
     error \notin {"remove"}

----------------------------------------------------------------------------
PruneIdx == {n \in 1..Len(tasks) : tasks[n].kind = "prune"}
PruneErrors == {"remove", "readDir", "rmdir"}
TasksOf(k) == {n \in LinkIdx : tasks[n].host = k}
Before(k1, k2) ==
  \E i, j \in 1..Len(HostOrder) : i < j /\ HostOrder[i] = k1 /\ HostOrder[j] = k2

(* C14: when no module path is listed twice, the prune step never fails,
   whatever the interleaving of its callbacks, and once it has completed every
   obsolete file is deleted and no directory it emptied below the vendor root
   is left. *)
C14_PruneNeverRaces ==
  ~HasDuplicate(Locked) =>
     /\ phase = "failed" => error \notin PruneErrors
     /\ PruneComplete =>
          /\ \A n \in PruneIdx : tasks[n].file \notin DOMAIN files
          /\ \A p \in removed \cap DOMAIN start.files :
               \A d \in Ancestors(p) : (Len(d) > 1 /\ d \in dirs) => ReadDir(d) # {}

(* C15: a link callback exists only when every prune callback has resolved,
   and after a failure of the prune step no link callback exists. *)
C15_PruneThenLink ==
  /\ LinkIdx # {} => \A n \in PruneIdx : tasks[n].pc = "done"
  /\ (phase = "failed" /\ error \in PruneErrors \cup {"TypeError"}) => LinkIdx = {}

C15_Witness ==
  /\ phase = "link"
  /\ \E n \in PruneIdx : tasks[n].file \in removed
  /\ \E n \in LinkIdx : tasks[n].pc = "write"

(* C16: a successful run writes the lock file exactly once, and the lock file
   is written only when all prune and link work of the run is done. *)
C16_LockWrittenOnce ==
  /\ phase = "done" => lockWrites = 1
  /\ lockWrites > 0 => phase = "done"

(* C18: in one run, at most one GET is issued for every (host, module) pair of
   the manifest. *)
C18_FetchedAtMostOnce ==
  \A k \in DOMAIN modules : \A i \in Mods :
     Cardinality({n \in TasksOf(k) : tasks[n].mod = i /\ tasks[n].fetched}) <= 1

(* C19, as claimed: when linking starts, the link callbacks of all (host,
   module) pairs of the manifest are started, across all hosts. *)
C19_FanOutAllHosts ==
  phase = "link" => Cardinality(LinkIdx) = Size(modules, HostOrder)

(* C19, amended: the link callbacks of one host are started together, one per
   entry of its "modules" array, and are awaited jointly; the hosts are
   linked one after another in document order, so a callback of a host exists
   only when every callback of each earlier host has resolved. *)
C19_FanOutPerHost ==
  \A k \in DOMAIN modules :
     /\ TasksOf(k) # {} => Cardinality(TasksOf(k)) = Len(modules[k].modules)
     /\ \A k1 \in DOMAIN modules :
          (Before(k1, k) /\ TasksOf(k) # {}) =>
             /\ Cardinality(TasksOf(k1)) = Len(modules[k1].modules)
             /\ \A n \in TasksOf(k1) : tasks[n].pc = "done"

C19_Witness ==
  /\ phase = "link"
  /\ \E k1, k2 \in DOMAIN modules :
       /\ Before(k1, k2)
       /\ \E n \in TasksOf(k1) : tasks[n].pc = "done" /\ tasks[n].fetched
       /\ \E n \in TasksOf(k2) : tasks[n].pc = "exists"

(* C12: a link whose fetch is answered with a declared content length above
   10,000,000 bytes fails at that step, before the body is read (it never
   gets past the size check to mkdir or write); the step creates or modifies
   no file and no directory, and the run is failed *)
C12_OversizedRejected ==
  /\ [](\A n \in LinkIdx : tasks[n].contentLength > Ceiling =>
            tasks[n].pc = "failed" /\ phase = "failed")
  /\ [][\A n \in LinkIdx :
          (n \in DOMAIN tasks' /\ tasks[n].pc = "fetch"
             /\ tasks'[n].contentLength > Ceiling) =>
            /\ tasks'[n].pc = "failed"
            /\ files' = files /\ dirs' = dirs
            /\ phase' = "failed"]_vars

C12_Witness ==
  \E n \in LinkIdx :
     /\ tasks[n].contentLength > Ceiling
     /\ tasks[n].pc = "failed"
     /\ error = "too big"
     /\ tasks[n].file \notin DOMAIN files

(* C17: once ensure has been rejected by a failed prune or link operation the
   run stays failed and the lock file is not written in the rest of the run;
   link operations already in flight may still write their file, and no file
   written by a link operation is removed again *)
C17_FailFast ==
  [][phase = "failed" =>
       /\ phase' \in {"failed", "idle"}
       /\ lockDisk' = lockDisk
       /\ phase' = "failed" => lockWrites' = lockWrites
       /\ LinkIdx # {} => \A p \in DOMAIN files : p \in DOMAIN files']_vars

C17_Witness ==
  /\ phase = "failed"
  /\ \E m, n \in LinkIdx :
       /\ tasks[m].pc = "failed"
       /\ tasks[n].host = tasks[m].host
       /\ tasks[n].pc = "done" /\ tasks[n].late
       /\ HoldsShim(tasks[n].host, tasks[n].mod)
  /\ lockDisk = start.lock

(* C20: in a sequence of successful runs from an empty vendor tree and the
   lock file {}, each with a manifest of its own, when a run has completed the
   shim files of the vendor tree are exactly the resolved paths of that run's
   manifest: no orphan is left and no module is missing *)
C20_NoOrphansNoGaps ==
  (phase = "done" /\ prev.clean) =>
     DOMAIN files = UNION {ModulePath(modules, k) : k \in DOMAIN modules}

C20_Witness ==
  /\ phase = "done" /\ prev.clean /\ prev.result = "done"
  /\ \E k \in DOMAIN prev.modules :
        \E p \in ModulePath(prev.modules, k) : p \notin DOMAIN files
  /\ \E k \in DOMAIN modules :
        \E p \in ModulePath(modules, k) :
           p \in DOMAIN files /\ \A h \in DOMAIN prev.modules : p \notin ModulePath(prev.modules, h)

----------------------------------------------------------------------------
(* Documents as the specification classifies them: a Modules value is an
   object whose every entry has a string version and a modules array of
   strings; Rejectable are the documents with a top level that is no object
   at all or with an entry that is not a Module *)
WellFormed(x) == x.type = "object" /\ \A k \in DOMAIN x.json : x.defect[k] = "none"
Rejectable(x) == x.type = "number" \/ \E k \in DOMAIN x.json : x.defect[k] # "none"
NoSideEffect ==
  /\ tasks = <<>> /\ removed = {} /\ lockWrites = 0
  /\ files = start.files /\ dirs = start.dirs /\ lockDisk = start.lock

(* C11: when the lock file exists and does not pass the validation, the run
   fails with the error of readLockFile (the lock is not read as an empty
   one), and nothing is deleted, fetched or written and the lock file is not
   rewritten *)
C11_MalformedLockFatal ==
  (phase # "idle" /\ start.lock.exists /\ Rejectable(start.lock)) =>
     /\ phase \in {"failed", "invalid"}
     /\ WellFormed(start.manifest) => phase = "failed" /\ error = "invalid format"
     /\ NoSideEffect

C11_Witness ==
  /\ phase = "failed" /\ error = "invalid format"
  /\ start.lock.exists /\ Rejectable(start.lock)
  /\ DOMAIN start.files # {}
  /\ WellFormed(start.manifest) /\ Size(start.manifest.json, HostOrder) > 0

(* C13: main accepts the manifest exactly when it is an object whose every
   entry has a string version and a modules array of strings; a manifest that
   is not accepted is reported with an error message and the run ends without
   ensure: nothing is deleted, fetched or written *)
C13_ValidationExact ==
  phase # "idle" =>
     /\ phase # "invalid" <=> WellFormed(start.manifest)
     /\ phase = "invalid" => error # "" /\ NoSideEffect

====
